---- MODULE Spec2Model ----
(***************************************************************************)
(* Model of the asyn-retry-policy crate: RetryPolicy::compute_backoff and  *)
(* the attempt loop of RetryPolicy::retry (src/src/lib.rs), one call alone,*)
(* cancelled, or interleaved with another over the same policy, and the    *)
(* #[retry] attribute (src/asyn-retry-policy-macro/src/lib.rs).            *)
(*                                                                         *)
(* Durations are exact natural numbers of nanoseconds, at their real       *)
(* magnitude (a std::time::Duration holds up to 2^64 seconds).  TLC's own  *)
(* integers are 32 bits wide, so a duration is a sequence of limbs in      *)
(* radix 10^4, least significant limb first, with no zero limb at the top: *)
(* 100 ms = 10^8 ns = <<0, 0, 1>>, zero = << >>.  A backoff_factor is an   *)
(* exact fraction num/den.  f64 rounding of the product is not modelled:   *)
(* the model computes the product exactly and truncates it to whole        *)
(* nanoseconds; what it keeps of the f64/Duration arithmetic are the       *)
(* ranges (f64 overflow to infinity, Duration overflow at 2^64 seconds).   *)
(***************************************************************************)
EXTENDS Integers, Sequences, FiniteSets, TLC

VARIABLES policy, should_retry, op, rng, pc, attempt, tries, predCalls, delays,
          result, cbAttempt, cbLo, cbHi, runs, cells, macro

vars == <<policy, should_retry, op, rng, pc, attempt, tries, predCalls, delays,
          result, cbAttempt, cbLo, cbHi, runs, cells, macro>>

(***************************************************************************)
(* Exact arithmetic on limb sequences.                                     *)
(***************************************************************************)
Radix == 10 ^ 4

SetMax(S) == CHOOSE x \in S : \A y \in S : y <= x

RECURSIVE Big(_)
Big(n) == IF n = 0 THEN << >> ELSE <<n % Radix>> \o Big(n \div Radix)

\* s without its zero limbs at the top
Norm(s) ==
  LET nz == {i \in 1..Len(s) : s[i] # 0}
  IN  IF nz = {} THEN << >> ELSE SubSeq(s, 1, SetMax(nz))

\* limbs lo..hi of s * m + c and the carry out of limb hi, for a small m; the
\* range is halved at each level so that the evaluation stays shallow
RECURSIVE MulRange(_, _, _, _, _)
MulRange(s, m, c, lo, hi) ==
  IF lo > hi THEN [limbs |-> << >>, carry |-> c]
  ELSE IF lo = hi
  THEN LET t == s[lo] * m + c
       IN  [limbs |-> <<t % Radix>>, carry |-> t \div Radix]
  ELSE LET mid == (lo + hi) \div 2
           low == MulRange(s, m, c, lo, mid)
           high == MulRange(s, m, low.carry, mid + 1, hi)
       IN  [limbs |-> low.limbs \o high.limbs, carry |-> high.carry]

\* s * m + c
MulAdd(s, m, c) ==
  LET r == MulRange(s, m, c, 1, Len(s)) IN Norm(r.limbs \o Big(r.carry))

BigMul(s, m) == MulAdd(s, m, 0)

BigAdd(s, k) == MulAdd(s, 1, k)

\* long division by a small d: the quotient limbs hi down to lo of s \div d,
\* most significant first, and the remainder below limb lo, given the remainder
\* rm of the limbs above hi
RECURSIVE DivRange(_, _, _, _, _)
DivRange(s, d, rm, lo, hi) ==
  IF lo > hi THEN [limbs |-> << >>, rest |-> rm]
  ELSE IF lo = hi
  THEN LET cur == rm * Radix + s[lo]
       IN  [limbs |-> <<cur \div d>>, rest |-> cur % d]
  ELSE LET mid == (lo + hi) \div 2
           high == DivRange(s, d, rm, mid + 1, hi)
           low == DivRange(s, d, high.rest, lo, mid)
       IN  [limbs |-> high.limbs \o low.limbs, rest |-> low.rest]

Reverse(s) == [i \in 1..Len(s) |-> s[Len(s) + 1 - i]]

BigDiv(s, d) == Norm(Reverse(DivRange(s, d, 0, 1, Len(s)).limbs))

BigMod(s, d) == DivRange(s, d, 0, 1, Len(s)).rest

BigLeq(x, y) ==
  IF Len(x) # Len(y) THEN Len(x) < Len(y)
  ELSE LET diff == {i \in 1..Len(x) : x[i] # y[i]}
       IN  diff = {} \/ x[SetMax(diff)] < y[SetMax(diff)]

BigLt(x, y) == x # y /\ BigLeq(x, y)

BigMin(x, y) == IF BigLeq(x, y) THEN x ELSE y

BigMax(x, y) == IF BigLeq(x, y) THEN y ELSE x

\* s * m^n
RECURSIVE MulPow(_, _, _)
MulPow(s, m, n) ==
  IF n = 0 THEN s
  ELSE IF n = 1 THEN BigMul(s, m)
  ELSE LET t == MulPow(s, m, n \div 2)
       IN  IF t = << >> THEN t ELSE MulPow(t, m, n - n \div 2)

\* s \div d^n
RECURSIVE DivPow(_, _, _)
DivPow(s, d, n) ==
  IF n = 0 \/ d = 1 THEN s
  ELSE IF n = 1 THEN BigDiv(s, d)
  ELSE LET t == DivPow(s, d, n \div 2)
       IN  IF t = << >> THEN t ELSE DivPow(t, d, n - n \div 2)

(***************************************************************************)
(* std::time::Duration and f64, as far as compute_backoff uses them.       *)
(***************************************************************************)
Nanos(ns) == Big(ns)
Millis(ms) == BigMul(BigMul(Big(ms), 1000), 1000)
Secs(sec) == BigMul(Millis(sec), 1000)

\* 2^64 seconds in nanoseconds: the first value Duration cannot hold
\* (18446744073709551616 * 10^9)
DurationLimit == <<0, 0, 6160, 9551, 7370, 7440, 8446, 1>>

\* 2^1024: the first value an f64 rounds to infinity
F64Limit ==
  <<7216, 2413, 6242, 6329, 3535, 3048, 9716, 3847, 2459, 9947, 9823, 5862,
  684, 5051, 1633, 7237, 4082, 1105, 3913, 8147, 4628, 2342, 5068, 8381,
  5768, 8500, 9520, 3082, 1945, 941, 1246, 1960, 3022, 5276, 6548, 4248,
  7893, 7776, 1243, 9474, 3063, 8474, 2492, 1662, 8144, 9768, 5878, 3576,
  1393, 7987, 1138, 1120, 3602, 4075, 7322, 847, 1327, 963, 550, 6758, 7732,
  8115, 4300, 7273, 3065, 8942, 7697, 6179, 4733, 8902, 1907, 9305, 772,
  3159, 4862, 9313, 7976, 1>>

\* Duration::MAX: 2^64 seconds less one nanosecond
DurationMax == <<9999, 9999, 6159, 9551, 7370, 7440, 8446, 1>>

\* Duration::from_secs(18446744073709552): the first whole second whose
\* milliseconds, 18446744073709552000, no longer fit a u64 (2^64 + 384)
WrapDelay == <<0, 0, 5520, 3709, 4407, 4467, 18>>

Factor(n, d) == [num |-> n, den |-> d]

\* (attempt - 1) as i32: the identity on 0 .. 2^31 - 1, which holds every
\* exponent the model reaches
AsI32(n) == n

\* f64::powi for a factor >= 0 and n >= 0: infinite once the power leaves the
\* f64 range, else the exact power
powi(f, n) ==
  IF BigLeq(F64Limit, DivPow(MulPow(Big(1), f.num, n), f.den, n))
  THEN [inf |-> TRUE, num |-> f.num, den |-> f.den, pow |-> n]
  ELSE [inf |-> FALSE, num |-> f.num, den |-> f.den, pow |-> n]

Panic == [ok |-> FALSE, val |-> << >>]
Ok(v) == [ok |-> TRUE, val |-> v]

\* Duration::mul_f64 = Duration::from_secs_f64(rhs * self.as_secs_f64()), which
\* panics when the product is infinite, NaN (0 * inf) or at least 2^64 seconds
mul_f64(self, rhs) ==
  IF rhs.inf THEN Panic
  ELSE LET prod == DivPow(MulPow(self, rhs.num, rhs.pow), rhs.den, rhs.pow)
       IN  IF BigLeq(DurationLimit, prod) THEN Panic ELSE Ok(prod)

\* RetryPolicy::compute_backoff without the clamp to max_delay
compute_backoff_unclamped(p, a) ==
  mul_f64(p.base_delay, powi(p.backoff_factor, AsI32(a - 1)))

compute_backoff(p, a) ==
  LET scaled == mul_f64(p.base_delay, powi(p.backoff_factor, AsI32(a - 1)))
  IN  IF scaled.ok THEN Ok(BigMin(scaled.val, p.max_delay)) ELSE Panic

(***************************************************************************)
(* The policy, the operation and the predicate handed to retry.            *)
(***************************************************************************)
NoSeed == [some |-> FALSE, seed |-> << >>]
Seed(x) == [some |-> TRUE, seed |-> x]

Policy(at, bd, md, bf, ji, sd) ==
  [attempts |-> at, base_delay |-> bd, max_delay |-> md, backoff_factor |-> bf,
   jitter |-> ji, rng_seed |-> sd]

DefaultPolicy == Policy(3, Millis(100), Secs(5), Factor(2, 1), TRUE, NoSeed)

\* the largest `attempts` of the policies enumerated in full
MaxAttempts == 3

\* `attempts` of the policies that retry until the backoff product leaves the
\* Duration range: the default policy at attempt 69 (0.1 s * 2^68 >= 2^64 s)
LongAttempts == 70

\* the operation's errors repeat with this period
PatLen == 2

Errors == {"temporary", "fatal"}

\* base_delay, max_delay and backoff_factor of the enumerated policies: the
\* defaults, the policy of tests/jitter_and_backoff.rs max_delay_is_enforced,
\* a shrinking factor, a zero base delay, a max_delay below one millisecond
\* and a constant delay of 2^64 ms under no effective ceiling
Timings ==
  {<<Millis(100), Secs(5), Factor(2, 1)>>,
   <<Secs(1), Millis(1500), Factor(10, 1)>>,
   <<Millis(100), Secs(5), Factor(1, 2)>>,
   <<Millis(0), Secs(5), Factor(2, 1)>>,
   <<Millis(100), Nanos(500000), Factor(2, 1)>>,
   <<WrapDelay, DurationMax, Factor(1, 1)>>}

Jitters == {<<FALSE, NoSeed>>, <<TRUE, NoSeed>>, <<TRUE, Seed(Big(42))>>}

GridPolicies ==
  {Policy(at, tm[1], tm[2], tm[3], js[1], js[2]) :
     at \in 0..MaxAttempts, tm \in Timings, js \in Jitters}

\* the defaults with a larger budget and no jitter, as examples/using_policy.rs
\* sets them
LongPolicies ==
  {[DefaultPolicy EXCEPT !.attempts = LongAttempts, !.jitter = FALSE]}

Policies == GridPolicies \cup LongPolicies

\* An operation as the tests write it: the first op.fails calls fail, call i
\* with error op.errs[i] (repeating), every later call succeeds with a value
\* that names the call.
Operations(p) ==
  [fails : 0..(p.attempts + 1), errs : [1..PatLen -> Errors]]

NoResult == [kind |-> "None", err |-> "", val |-> 0]
OkResult(v) == [kind |-> "Ok", err |-> "", val |-> v]
ErrResult(e) == [kind |-> "Err", err |-> e, val |-> 0]
PanicResult(why) == [kind |-> "Panic", err |-> why, val |-> 0]

\* the result of the i-th call of the operation
Outcome(o, i) ==
  IF i <= o.fails THEN ErrResult(o.errs[((i - 1) % PatLen) + 1])
  ELSE OkResult(i)

(***************************************************************************)
(* Jitter (lib.rs 131-141).                                                *)
(***************************************************************************)
\* Duration::as_millis truncates to whole milliseconds
as_millis(d) == BigDiv(BigDiv(d, 1000), 1000)

from_millis(ms) == BigMul(BigMul(ms, 1000), 1000)

\* `as u64`: x mod 2^64, from the four 16-bit digits of the remainder
AsU64(x) ==
  LET q1 == BigDiv(x, 65536)
      q2 == BigDiv(q1, 65536)
      q3 == BigDiv(q2, 65536)
  IN  MulAdd(MulAdd(MulAdd(Big(BigMod(q3, 65536)), 65536, BigMod(q2, 65536)),
                    65536, BigMod(q1, 65536)),
             65536, BigMod(x, 65536))

\* seed.wrapping_add(attempt as u64)
wrapping_add(x, k) == AsU64(BigAdd(x, k))

\* what a generator draws from 0..=max_ms: the ends of the range or its middle
RngDraws == {"low", "mid", "high"}

gen_range(draw, max_ms) ==
  CASE draw = "low" -> << >>
    [] draw = "mid" -> BigDiv(max_ms, 2)
    [] draw = "high" -> max_ms

\* the seeds SmallRng::seed_from_u64 is given during one retry of policy p
RngInputs(p) ==
  IF p.jitter /\ p.rng_seed.some
  THEN {wrapping_add(p.rng_seed.seed, a) : a \in 1..p.attempts}
  ELSE {}

\* max_ms of lib.rs 132
JitterMax(delay) == AsU64(BigMax(as_millis(delay), Big(1)))

\* the seed ignored: every delay drawn from the process-wide generator
JitterDelaysUnseeded(p, table, a, delay) ==
  {from_millis(gen_range(draw, JitterMax(delay))) : draw \in RngDraws}

\* the delays lib.rs 131-141 can produce from the backoff `delay` at attempt a:
\* one value with a seed (the generator is a function of its seed), any draw
\* of the range without
JitterDelays(p, table, a, delay) ==
  IF p.rng_seed.some
  THEN {from_millis(gen_range(table[wrapping_add(p.rng_seed.seed, a)],
                              JitterMax(delay)))}
  ELSE {from_millis(gen_range(draw, JitterMax(delay))) : draw \in RngDraws}

(***************************************************************************)
(* RetryPolicy::retry (lib.rs 115-150).                                    *)
(***************************************************************************)
\* `attempts` read as the number of retries after the first try
BudgetCountsRetries(p) == p.attempts + 1

\* self.attempts as the budget of the loop (range of line 123, guard of 126)
Budget(p) == p.attempts

\* `attempt < self.attempts`, the left operand of the guard of line 126
BudgetLeft(p, a) == a < Budget(p)

\* the operands of && swapped: the predicate is evaluated on every failure
PredicateConsultedFirst(p, a) == TRUE

\* && evaluates should_retry(&e) only when its left operand holds
PredicateConsulted(p, a) == BudgetLeft(p, a)

\* the guard without its right operand
RetryGuardIgnoringPredicate(p, a, pred, e) == BudgetLeft(p, a)

\* the guard of line 126
RetryGuard(p, a, pred, e) == BudgetLeft(p, a) /\ pred[e]

\* the index of the attempt that follows the delay
BackoffIndexNext(a) == a + 1

\* the attempt index compute_backoff is given at line 128
BackoffIndex(a) == a

\* a factory whose first result is kept and handed out again
CallFactoryOnce(n) == IF n = 0 THEN 1 ELSE n

\* f() at line 124: every evaluation of the match scrutinee calls the factory,
\* n calls having been made before
CallFactory(n) == n + 1

\* the error of the first attempt, kept across the retries
FirstError(o, n) == Outcome(o, 1).err

\* the error returned at line 146: the one just matched
TerminalError(o, n) == Outcome(o, n).err

\* a loop that runs on after its future was dropped (a detached task)
SuspendedOrDropped(state, at) == state = at \/ state = "Cancelled"

\* a loop that does not await: it runs on from either .await whichever of the
\* two it is suspended at
SuspendedAnywhere(state, at) == state \in {"Attempting", "Delaying"}

\* the future of retry runs on from an .await (line 124, line 143) only when
\* polled while suspended there; a dropped future is never polled again
Suspended(state, at) == state = at

Init ==
  /\ policy \in Policies
  /\ should_retry \in [Errors -> BOOLEAN]
  /\ op \in Operations(policy)
  /\ rng \in [RngInputs(policy) -> RngDraws]
  /\ pc = "Created"
  /\ attempt = 0
  /\ tries = 0
  /\ predCalls = 0
  /\ delays = << >>
  /\ result = NoResult
  /\ cbAttempt = 0
  /\ cbLo = Panic
  /\ cbHi = Panic
  /\ runs = << >>
  /\ cells = << >>
  /\ macro = << >>

\* first poll: the loop of line 123 starts, or is empty and line 149 is reached
Begin ==
  /\ pc = "Created"
  /\ IF 1 <= Budget(policy)
     THEN /\ attempt' = 1
          /\ tries' = CallFactory(tries)
          /\ pc' = "Attempting"
          /\ result' = result
     ELSE /\ pc' = "Panicked"
          /\ result' = PanicResult("unreachable")
          /\ UNCHANGED <<attempt, tries>>
  /\ UNCHANGED <<policy, should_retry, op, rng, predCalls, delays,
                 cbAttempt, cbLo, cbHi, runs, cells, macro>>

\* the awaited operation completes: the match of lines 124-147
Complete ==
  /\ Suspended(pc, "Attempting")
  /\ LET out == Outcome(op, tries)
     IN  IF out.kind = "Ok"
         THEN /\ pc' = "Succeeded"
              /\ result' = out
              /\ UNCHANGED <<predCalls, delays>>
         ELSE /\ predCalls' =
                   IF PredicateConsulted(policy, attempt) THEN predCalls + 1
                   ELSE predCalls
              /\ IF RetryGuard(policy, attempt, should_retry, out.err)
                 THEN LET backoff ==
                            compute_backoff(policy, BackoffIndex(attempt))
                      IN  IF ~backoff.ok
                          THEN /\ pc' = "Panicked"
                               /\ result' = PanicResult("mul_f64")
                               /\ delays' = delays
                          ELSE /\ pc' = "Delaying"
                               /\ result' = result
                               /\ \E delay \in
                                     IF policy.jitter
                                     THEN JitterDelays(policy, rng, attempt,
                                                       backoff.val)
                                     ELSE {backoff.val} :
                                    delays' = Append(delays, delay)
                 ELSE /\ pc' = "FailedTerminal"
                      /\ result' = ErrResult(TerminalError(op, tries))
                      /\ delays' = delays
  /\ UNCHANGED <<policy, should_retry, op, rng, attempt, tries,
                 cbAttempt, cbLo, cbHi, runs, cells, macro>>

\* the sleep of line 143 elapses; `continue` takes the next index of the range
\* of line 123 and calls the factory again
Wake ==
  /\ Suspended(pc, "Delaying")
  /\ IF attempt + 1 <= Budget(policy)
     THEN /\ attempt' = attempt + 1
          /\ tries' = CallFactory(tries)
          /\ pc' = "Attempting"
          /\ result' = result
     ELSE /\ pc' = "Panicked"
          /\ result' = PanicResult("unreachable")
          /\ UNCHANGED <<attempt, tries>>
  /\ UNCHANGED <<policy, should_retry, op, rng, predCalls, delays,
                 cbAttempt, cbLo, cbHi, runs, cells, macro>>

Next == Begin \/ Complete \/ Wake

Spec == Init /\ [][Next]_vars

Terminal == pc \in {"Succeeded", "FailedTerminal", "Panicked"}

\* the caller drops the future of retry before it has completed: never polled,
\* or suspended in the operation (line 124) or in the sleep (line 143)
Cancel ==
  /\ pc \in {"Created", "Attempting", "Delaying"}
  /\ pc' = "Cancelled"
  /\ UNCHANGED <<policy, should_retry, op, rng, attempt, tries, predCalls,
                 delays, result, cbAttempt, cbLo, cbHi, runs, cells, macro>>

NextCancel == Begin \/ Complete \/ Wake \/ Cancel

SpecCancel == Init /\ [][NextCancel]_vars

(***************************************************************************)
(* compute_backoff called on its own (it is public): any policy, called    *)
(* with the attempt indices 1, 2, 3, ...; cbHi is what the last call       *)
(* returned, for index cbAttempt, and cbLo what the call before it did.    *)
(***************************************************************************)
\* the largest attempt index compute_backoff is called with
MaxBackoffAttempt == 70

BackoffPolicies ==
  {Policy(1, bd, md, bf, FALSE, NoSeed) :
     bd \in {Millis(0), Millis(1), Millis(100), Secs(1)},
     md \in {Millis(0), Millis(150), Millis(1500), Secs(5)},
     bf \in {Factor(1, 2), Factor(1, 1), Factor(3, 2), Factor(2, 1),
             Factor(10, 1), Factor(30000, 1)}}

InitBackoff ==
  /\ policy \in BackoffPolicies
  /\ should_retry = [e \in Errors |-> TRUE]
  /\ op = [fails |-> 0, errs |-> [i \in 1..PatLen |-> "temporary"]]
  /\ rng = << >>
  /\ pc = "Created"
  /\ attempt = 0
  /\ tries = 0
  /\ predCalls = 0
  /\ delays = << >>
  /\ result = NoResult
  /\ cbAttempt = 0
  /\ cbLo = Panic
  /\ cbHi = Panic
  /\ runs = << >>
  /\ cells = << >>
  /\ macro = << >>

CallBackoff ==
  /\ cbAttempt < MaxBackoffAttempt
  /\ cbAttempt' = cbAttempt + 1
  /\ cbLo' = cbHi
  /\ cbHi' = compute_backoff(policy, cbAttempt + 1)
  /\ UNCHANGED <<policy, should_retry, op, rng, pc, attempt, tries, predCalls,
                 delays, result, runs, cells, macro>>

NextBackoff == CallBackoff

SpecBackoff == InitBackoff /\ [][NextBackoff]_vars

\* min(base_delay * backoff_factor^(a-1), max_delay), in whole nanoseconds
BackoffFormula(p, a) ==
  BigMin(DivPow(MulPow(p.base_delay, p.backoff_factor.num, a - 1),
                p.backoff_factor.den, a - 1),
         p.max_delay)

(***************************************************************************)
(* Several retry invocations over one policy value, interleaved at their   *)
(* suspension points (lines 124 and 143).  retry takes &self, each future  *)
(* owns its factory, predicate and loop variable; runs[i] is the state of  *)
(* invocation i and cells[i] the loop variable `attempt` of its future.    *)
(***************************************************************************)
Invocations == 1..2

\* the largest `attempts` of the policies the invocations share
PairAttempts == 3

\* u64::MAX, the seed whose sum with every attempt index wraps
U64Max == <<1615, 955, 737, 6744, 1844>>

PairJitters == {<<FALSE, NoSeed>>, <<TRUE, NoSeed>>, <<TRUE, Seed(U64Max)>>}

PairPolicies ==
  {Policy(at, Millis(100), Secs(5), Factor(2, 1), js[1], js[2]) :
     at \in 0..PairAttempts, js \in PairJitters}

\* operations failing with "temporary" and then with "fatal"
PairOperations(p) ==
  [fails : 0..p.attempts,
   errs : {[k \in 1..PatLen |-> IF k = 1 THEN "temporary" ELSE "fatal"]}]

PairPredicates == {[e \in Errors |-> TRUE], [e \in Errors |-> e = "temporary"]}

Run(o, pred) ==
  [op |-> o, should_retry |-> pred, pc |-> "Created", tries |-> 0,
   delays |-> << >>, result |-> NoResult]

\* one loop variable kept where every invocation reaches it
SharedCell(i) == 1

\* `attempt` of line 123 is a local of the future of invocation i
Cell(i) == i

\* the delays line 143 may sleep for after the backoff of attempt a
SleepDelays(p, table, a, backoff) ==
  IF p.jitter THEN JitterDelays(p, table, a, backoff) ELSE {backoff}

InitPair ==
  /\ policy \in PairPolicies
  /\ rng \in {t \in [RngInputs(policy) -> RngDraws] :
                \* the generator of the last index is never asked (line 126)
                \A x \in RngInputs(policy) :
                   x = wrapping_add(policy.rng_seed.seed, policy.attempts)
                   => t[x] = "low"}
  /\ runs \in [Invocations ->
                 {Run(o, pred) : o \in PairOperations(policy),
                                 pred \in PairPredicates}]
  /\ cells = [i \in Invocations |-> 0]
  /\ macro = << >>
  /\ should_retry = [e \in Errors |-> TRUE]
  /\ op = [fails |-> 0, errs |-> [i \in 1..PatLen |-> "temporary"]]
  /\ pc = "Created"
  /\ attempt = 0
  /\ tries = 0
  /\ predCalls = 0
  /\ delays = << >>
  /\ result = NoResult
  /\ cbAttempt = 0
  /\ cbLo = Panic
  /\ cbHi = Panic

\* first poll of invocation i
PairBegin(i) ==
  /\ runs[i].pc = "Created"
  /\ IF 1 <= Budget(policy)
     THEN /\ cells' = [cells EXCEPT ![Cell(i)] = 1]
          /\ runs' = [runs EXCEPT ![i].tries = CallFactory(@),
                                  ![i].pc = "Attempting"]
     ELSE /\ runs' = [runs EXCEPT ![i].pc = "Panicked",
                                  ![i].result = PanicResult("unreachable")]
          /\ cells' = cells
  /\ UNCHANGED <<policy, should_retry, op, rng, pc, attempt, tries, predCalls,
                 delays, result, cbAttempt, cbLo, cbHi, macro>>

\* the operation awaited by invocation i completes
PairComplete(i) ==
  /\ runs[i].pc = "Attempting"
  /\ LET r == runs[i]
         a == cells[Cell(i)]
         out == Outcome(r.op, r.tries)
     IN  IF out.kind = "Ok"
         THEN runs' = [runs EXCEPT ![i].pc = "Succeeded", ![i].result = out]
         ELSE IF RetryGuard(policy, a, r.should_retry, out.err)
         THEN LET backoff == compute_backoff(policy, BackoffIndex(a))
              IN  IF ~backoff.ok
                  THEN runs' = [runs EXCEPT
                                  ![i].pc = "Panicked",
                                  ![i].result = PanicResult("mul_f64")]
                  ELSE \E delay \in SleepDelays(policy, rng, a, backoff.val) :
                          runs' = [runs EXCEPT
                                     ![i].pc = "Delaying",
                                     ![i].delays = Append(@, delay)]
         ELSE runs' = [runs EXCEPT
                         ![i].pc = "FailedTerminal",
                         ![i].result = ErrResult(TerminalError(r.op, r.tries))]
  /\ UNCHANGED <<policy, should_retry, op, rng, pc, attempt, tries, predCalls,
                 delays, result, cbAttempt, cbLo, cbHi, cells, macro>>

\* the sleep of invocation i elapses
PairWake(i) ==
  /\ runs[i].pc = "Delaying"
  /\ IF cells[Cell(i)] + 1 <= Budget(policy)
     THEN /\ cells' = [cells EXCEPT ![Cell(i)] = @ + 1]
          /\ runs' = [runs EXCEPT ![i].tries = CallFactory(@),
                                  ![i].pc = "Attempting"]
     ELSE /\ runs' = [runs EXCEPT ![i].pc = "Panicked",
                                  ![i].result = PanicResult("unreachable")]
          /\ cells' = cells
  /\ UNCHANGED <<policy, should_retry, op, rng, pc, attempt, tries, predCalls,
                 delays, result, cbAttempt, cbLo, cbHi, macro>>

NextPair ==
  \E i \in Invocations : PairBegin(i) \/ PairComplete(i) \/ PairWake(i)

SpecPair == InitPair /\ [][NextPair]_vars

(***************************************************************************)
(* The #[retry] attribute (asyn-retry-policy-macro/src/lib.rs): a function *)
(* from the attribute's arguments and the annotated item to a compile      *)
(* error or a wrapped function, which builds a RetryPolicy and calls retry.*)
(* macro.attr is the argument list, macro.item the annotated function and  *)
(* macro.out the expansion; the wrapped function is then called once.      *)
(***************************************************************************)
\* the longest key = value list enumerated
MaxArgs == 2

None == [some |-> FALSE, val |-> 0]
Some(v) == [some |-> TRUE, val |-> v]

\* the functions a predicate argument can name (tests/macro_predicate_tests.rs)
PathNames == {"is_retryable", "never_retry"}

\* expressions by the syn::Expr variant they parse to: the integer literals 1
\* and 3, the float literal 2.0, the literal false, two string literals, two
\* paths and a closure; num is the value of a numeric literal, text the tokens
\* of the others
Exprs ==
  [kind : {"int"}, num : {1, 3}, text : {""}] \cup
  [kind : {"float"}, num : {2}, text : {""}] \cup
  [kind : {"bool"}, num : {0}, text : {"false"}] \cup
  [kind : {"str"}, num : {0}, text : {"is_retryable", "not a path"}] \cup
  [kind : {"path"}, num : {0}, text : PathNames] \cup
  [kind : {"closure"}, num : {0}, text : {"|e| e == tmp"}]

NoExpr == [kind |-> "none", num |-> 0, text |-> ""]

Keys ==
  {"attempts", "base_delay_ms", "max_delay_ms", "backoff_factor", "jitter",
   "rng_seed", "predicate", "timeout_ms"}

KeyVals == [key : Keys, expr : Exprs]

RECURSIVE ArgLists(_)
ArgLists(n) ==
  IF n = 0 THEN {<< >>}
  ELSE ArgLists(n - 1) \cup
       {Append(l, a) : l \in {x \in ArgLists(n - 1) : Len(x) = n - 1},
                       a \in KeyVals}

\* #[retry], #[retry(<one expression>)], #[retry(key = value, ...)] with at
\* most n pairs
Attrs(n) ==
  {[form |-> "empty", expr |-> NoExpr, args |-> << >>]} \cup
  {[form |-> "expr", expr |-> e, args |-> << >>] : e \in Exprs} \cup
  {[form |-> "keyvals", expr |-> NoExpr, args |-> l] :
     l \in ArgLists(n) \ {<< >>}}

Items == [async : BOOLEAN]

\* the seven Option locals of lines 12-18
NoOptions ==
  [attempts |-> None, base_delay_ms |-> None, max_delay_ms |-> None,
   backoff_factor |-> [some |-> FALSE, val |-> Factor(0, 1)],
   jitter_opt |-> [some |-> FALSE, val |-> FALSE], rng_seed |-> None,
   predicate_expr |-> [some |-> FALSE, val |-> ""]]

CompileError(msg) == [kind |-> "error", msg |-> msg, opts |-> NoOptions]
Parsed(o) == [kind |-> "parsed", msg |-> "", opts |-> o]

\* s.parse::<syn::Path>() succeeds
ValidPath(str) == str \in PathNames

\* one arm of the match of lines 46-92
ParseArg(o, key, expr) ==
  CASE key = "attempts" ->
         IF expr.kind = "int"
         THEN Parsed([o EXCEPT !.attempts = Some(expr.num)])
         ELSE CompileError("expected integer literal")
    [] key = "base_delay_ms" ->
         IF expr.kind = "int"
         THEN Parsed([o EXCEPT !.base_delay_ms = Some(expr.num)])
         ELSE CompileError("expected integer literal for base_delay_ms")
    [] key = "max_delay_ms" ->
         IF expr.kind = "int"
         THEN Parsed([o EXCEPT !.max_delay_ms = Some(expr.num)])
         ELSE CompileError("expected integer literal for max_delay_ms")
    [] key = "backoff_factor" ->
         IF expr.kind = "float"
         THEN Parsed([o EXCEPT !.backoff_factor = Some(Factor(expr.num, 1))])
         ELSE IF expr.kind = "int"
         THEN Parsed([o EXCEPT !.backoff_factor = Some(Factor(expr.num, 1))])
         ELSE CompileError("expected numeric literal for backoff_factor")
    [] key = "jitter" ->
         IF expr.kind = "bool"
         THEN Parsed([o EXCEPT !.jitter_opt = Some(expr.text = "true")])
         ELSE CompileError("expected boolean literal for jitter")
    [] key = "rng_seed" ->
         IF expr.kind = "int"
         THEN Parsed([o EXCEPT !.rng_seed = Some(expr.num)])
         ELSE CompileError("expected integer literal for rng_seed")
    [] key = "predicate" ->
         IF expr.kind = "path"
         THEN Parsed([o EXCEPT !.predicate_expr = Some(expr.text)])
         ELSE IF expr.kind = "str"
         THEN IF ValidPath(expr.text)
              THEN Parsed([o EXCEPT !.predicate_expr = Some(expr.text)])
              ELSE CompileError("invalid path in string")
         ELSE CompileError("expected path or string literal for predicate")
    [] OTHER -> CompileError("unknown option")

\* the loop of line 45 from argument k on: the first error returns
RECURSIVE ParseArgs(_, _, _)
ParseArgs(args, k, o) ==
  IF k > Len(args) THEN Parsed(o)
  ELSE LET r == ParseArg(o, args[k].key, args[k].expr)
       IN  IF r.kind = "error" THEN r ELSE ParseArgs(args, k + 1, r.opts)

\* lines 20-95: the integer form, else the key = value list (a lone expression
\* that is not an integer literal does not parse as one)
ParseAttr(attr) ==
  CASE attr.form = "empty" -> Parsed(NoOptions)
    [] attr.form = "expr" ->
         IF attr.expr.kind = "int"
         THEN Parsed([NoOptions EXCEPT !.attempts = Some(attr.expr.num)])
         ELSE CompileError("expected identifier")
    [] attr.form = "keyvals" -> ParseArgs(attr.args, 1, NoOptions)

\* lines 126-143: RetryPolicy { <the fields given>, ..Default::default() }
BuildPolicy(o) ==
  [attempts |-> IF o.attempts.some THEN o.attempts.val ELSE 3,
   base_delay |-> IF o.base_delay_ms.some
                  THEN from_millis(Big(o.base_delay_ms.val))
                  ELSE DefaultPolicy.base_delay,
   max_delay |-> IF o.max_delay_ms.some
                 THEN from_millis(Big(o.max_delay_ms.val))
                 ELSE DefaultPolicy.max_delay,
   backoff_factor |-> IF o.backoff_factor.some THEN o.backoff_factor.val
                      ELSE DefaultPolicy.backoff_factor,
   jitter |-> IF o.jitter_opt.some THEN o.jitter_opt.val
              ELSE DefaultPolicy.jitter,
   rng_seed |-> IF o.rng_seed.some THEN Seed(Big(o.rng_seed.val))
                ELSE DefaultPolicy.rng_seed]

\* lines 146-150: the predicate given, else |_| true
PredicateTokens(o) ==
  IF o.predicate_expr.some THEN o.predicate_expr.val ELSE "|_| true"

NoExpansion ==
  [kind |-> "none", msg |-> "", policy |-> DefaultPolicy, predicate |-> ""]

\* the proc macro retry(attr, item), lines 6-164
retry_macro(attr, item) ==
  LET parsed == ParseAttr(attr)
  IN  IF parsed.kind = "error"
      THEN [NoExpansion EXCEPT !.kind = "error", !.msg = parsed.msg]
      ELSE IF ~item.async
      THEN [NoExpansion EXCEPT
              !.kind = "error",
              !.msg = "#[retry] can only be applied to async fn"]
      ELSE [kind |-> "wrapped", msg |-> "",
            policy |-> BuildPolicy(parsed.opts),
            predicate |-> PredicateTokens(parsed.opts)]

\* what the predicate tokens evaluate to in the wrapped function
PredicateFn(tokens) ==
  CASE tokens = "is_retryable" -> [e \in Errors |-> e = "temporary"]
    [] tokens = "never_retry" -> [e \in Errors |-> FALSE]
    [] OTHER -> [e \in Errors |-> TRUE]

InitMacro ==
  /\ macro \in [attr : Attrs(MaxArgs), item : Items, out : {NoExpansion}]
  /\ pc = "Unexpanded"
  /\ policy = DefaultPolicy
  /\ should_retry = [e \in Errors |-> TRUE]
  /\ op = [fails |-> 2, errs |-> [i \in 1..PatLen |-> "temporary"]]
  /\ rng = << >>
  /\ attempt = 0
  /\ tries = 0
  /\ predCalls = 0
  /\ delays = << >>
  /\ result = NoResult
  /\ cbAttempt = 0
  /\ cbLo = Panic
  /\ cbHi = Panic
  /\ runs = << >>
  /\ cells = << >>

\* the compiler expands the attribute; a wrapped function is then called
Expand ==
  /\ pc = "Unexpanded"
  /\ LET out == retry_macro(macro.attr, macro.item)
     IN  /\ macro' = [macro EXCEPT !.out = out]
         /\ IF out.kind = "wrapped"
            THEN /\ pc' = "Created"
                 /\ policy' = out.policy
                 /\ should_retry' = PredicateFn(out.predicate)
                 /\ rng' \in [RngInputs(out.policy) -> RngDraws]
            ELSE /\ pc' = "Rejected"
                 /\ UNCHANGED <<policy, should_retry, rng>>
  /\ UNCHANGED <<op, attempt, tries, predCalls, delays, result,
                 cbAttempt, cbLo, cbHi, runs, cells>>

NextMacro == Expand \/ Begin \/ Complete \/ Wake

SpecMacro == InitMacro /\ [][NextMacro]_vars

(***************************************************************************)
(* The claims.                                                             *)
(***************************************************************************)
AlwaysTrue == \A e \in Errors : should_retry[e]
AlwaysFalse == \A e \in Errors : ~should_retry[e]

\* C1: with a predicate that always returns true and an operation that fails
\* k < attempts times and then succeeds, retry makes exactly k+1 attempts,
\* returns the success value of attempt k+1 and starts no attempt after it.
C1_RetriesThenSucceeds ==
  (AlwaysTrue /\ op.fails < policy.attempts) =>
     /\ tries <= op.fails + 1
     /\ Terminal => /\ pc = "Succeeded"
                    /\ tries = op.fails + 1
                    /\ result = OkResult(op.fails + 1)

\* C2: with attempts >= 1 the operation is executed at most `attempts` times
\* and the attempt index never exceeds `attempts`.
C2_AtMostAttempts ==
  policy.attempts >= 1 => tries <= policy.attempts /\ attempt <= policy.attempts

C2_Witness ==
  policy.attempts >= 2 /\ tries = policy.attempts /\ pc = "FailedTerminal"

\* C3: a failure of attempt n with error e is terminal, returning e, exactly
\* when n = attempts or the predicate rejects e; every other failure goes to
\* Delaying(n), and the delay is followed by Attempting(n+1).
C3_FailureTransitions ==
  [][/\ (pc = "Attempting" /\ Outcome(op, tries).kind = "Err") =>
          IF attempt = policy.attempts \/ ~should_retry[Outcome(op, tries).err]
          THEN pc' = "FailedTerminal" /\ result' = Outcome(op, tries)
          ELSE pc' = "Delaying" /\ attempt' = attempt
     /\ pc = "Delaying" => pc' = "Attempting" /\ attempt' = attempt + 1]_vars

\* C4: when retry ends in failure it returns, unmodified, the error of the
\* last executed attempt: the attempt at index `attempts` or the first one
\* whose error the predicate rejected.
C4_LastErrorReturned ==
  pc = "FailedTerminal" =>
     /\ tries = attempt
     /\ result = Outcome(op, tries)
     /\ result.kind = "Err"
     /\ attempt = policy.attempts \/ ~should_retry[result.err]

C4_Witness ==
  /\ pc = "FailedTerminal"
  /\ tries >= 2
  /\ Outcome(op, 1).err # result.err

\* C5: with a predicate that always returns false and an operation that always
\* fails, retry makes exactly one attempt whatever attempts > 1 is, never
\* delays, and returns that attempt's error.
C5_PredicateFalseOneAttempt ==
  (AlwaysFalse /\ op.fails >= policy.attempts /\ policy.attempts > 1) =>
     /\ tries <= 1
     /\ delays = << >>
     /\ pc \in {"Created", "Attempting", "FailedTerminal"}
     /\ pc = "FailedTerminal" => tries = 1 /\ result = Outcome(op, 1)

C5_Witness ==
  /\ AlwaysFalse
  /\ op.fails >= policy.attempts
  /\ policy.attempts = 3
  /\ pc = "FailedTerminal"

\* C6: with attempts = 1 the operation runs exactly once whatever its outcome,
\* the predicate is never invoked and no delay is entered.
C6_SingleAttempt ==
  policy.attempts = 1 =>
     /\ tries <= 1
     /\ predCalls = 0
     /\ delays = << >>
     /\ pc \in {"Created", "Attempting", "Succeeded", "FailedTerminal"}
     /\ Terminal => tries = 1

C6_Witness ==
  /\ policy.attempts = 1
  /\ pc = "FailedTerminal"
  /\ should_retry[result.err]

\* C7: with attempts = 0 the call ends with a dedicated configuration error
\* and executes no attempt; it never reaches the unreachable state.
C7_ZeroAttemptsRejected ==
  policy.attempts = 0 =>
     /\ tries = 0
     /\ pc \in {"Created", "FailedTerminal"}
     /\ pc = "FailedTerminal" => result.kind = "ConfigError"

\* C8: with jitter disabled the delay retry sleeps after attempt n, before
\* attempt n+1, is compute_backoff(n):
\* 100 ms then 200 ms for base_delay 100 ms, factor 2, max_delay 5 s, and
\* 1 s then 1.5 s for base_delay 1 s, factor 10, max_delay 1.5 s.
C8_DelayIsBackoff ==
  ~policy.jitter =>
     /\ pc = "Delaying" =>
          /\ Len(delays) = attempt
          /\ Ok(delays[attempt]) = compute_backoff(policy, attempt)
     /\ (/\ policy.base_delay = Millis(100)
         /\ policy.backoff_factor = Factor(2, 1)
         /\ policy.max_delay = Secs(5)
         /\ Len(delays) >= 2)
        => delays[1] = Millis(100) /\ delays[2] = Millis(200)
     /\ (/\ policy.base_delay = Secs(1)
         /\ policy.backoff_factor = Factor(10, 1)
         /\ policy.max_delay = Millis(1500)
         /\ Len(delays) >= 2)
        => delays[1] = Secs(1) /\ delays[2] = Millis(1500)

C8_Witness ==
  /\ ~policy.jitter
  /\ pc = "Succeeded"
  /\ tries = 3
  /\ delays = <<Secs(1), Millis(1500)>>

\* C9: for every attempt >= 1, compute_backoff(attempt) is
\* min(base_delay * backoff_factor^(attempt-1), max_delay); compute_backoff(1)
\* is base_delay when base_delay <= max_delay and max_delay otherwise.
C9_BackoffEqualsFormula ==
  cbAttempt >= 1 =>
     /\ cbHi = Ok(BackoffFormula(policy, cbAttempt))
     /\ cbAttempt = 1 =>
          cbHi = Ok(IF BigLeq(policy.base_delay, policy.max_delay)
                    THEN policy.base_delay ELSE policy.max_delay)

C11_DelayWithinMaxDelay ==
  pc = "Delaying" => BigLeq(delays[Len(delays)], policy.max_delay)

\* C12: with jitter enabled, the delay slept before each retry lies between 0
\* and the pre-jitter delay compute_backoff(n), inclusive.
C12_JitterWithinBackoff ==
  (policy.jitter /\ pc = "Delaying") =>
     /\ compute_backoff(policy, attempt).ok
     /\ BigLeq(delays[Len(delays)], compute_backoff(policy, attempt).val)

\* the shorter of the two delay sequences
CommonDelays ==
  IF Len(runs[1].delays) <= Len(runs[2].delays)
  THEN Len(runs[1].delays) ELSE Len(runs[2].delays)

\* C13: with jitter enabled and rng_seed = s, the delay of attempt index a is
\* a function of (s + a wrapping at 2^64, pre-jitter delay) only: two
\* independent runs over the same policy sleep identical delays at each
\* attempt index, whatever was drawn at earlier attempts.
C13_SeededJitterReproducible ==
  (policy.jitter /\ policy.rng_seed.some) =>
     /\ \A a \in 1..CommonDelays : runs[1].delays[a] = runs[2].delays[a]
     /\ \A i \in Invocations : \A a \in 1..Len(runs[i].delays) :
          runs[i].delays[a] =
            from_millis(gen_range(
              rng[AsU64(BigAdd(policy.rng_seed.seed, a))],
              JitterMax(compute_backoff(policy, a).val)))

C13_Witness ==
  /\ policy.jitter
  /\ policy.rng_seed.seed = U64Max
  /\ runs[1].op # runs[2].op
  /\ runs[1].pc = "Succeeded"
  /\ runs[2].pc = "FailedTerminal"
  /\ Len(runs[1].delays) = 2
  /\ Len(runs[2].delays) = 1
  /\ runs[1].delays[1] # runs[1].delays[2]
  /\ rng[<< >>] = "high"

\* C14: once the retry task is cancelled, while an attempt is in flight or a
\* delay is pending, no further attempt is started and no delay is resumed:
\* the count of started attempts never increases after cancellation.
C14_NoAttemptAfterCancel ==
  [][pc = "Cancelled" =>
       /\ pc' = "Cancelled"
       /\ tries' = tries
       /\ attempt' = attempt
       /\ delays' = delays
       /\ result' = result]_vars

C14_Witness ==
  /\ pc = "Cancelled"
  /\ tries = 2
  /\ Len(delays) = 2
  /\ policy.attempts = 3

\* C15: the operation factory is invoked exactly once per attempt: the number
\* of factory invocations equals the number of attempts executed, and the
\* result handled at attempt n is the one the n-th invocation produced, never
\* that of an earlier attempt.
C15_FactoryFreshPerAttempt ==
  /\ tries = attempt
  /\ pc = "Succeeded" => result = OkResult(attempt)
  /\ pc = "FailedTerminal" => result = Outcome(op, attempt)
  /\ pc = "Delaying" => Outcome(op, attempt).kind = "Err"

C15_Witness ==
  /\ pc = "Succeeded"
  /\ attempt = 3
  /\ tries = 3
  /\ result = OkResult(3)

\* what one retry call running alone can have reached: r is the state of the
\* call and a its attempt index.  Every attempt before a failed and was retried,
\* every delay slept is one the policy allows at its index, and the call stands
\* where the outcome of attempt a puts it.
SoloReachable(p, table, r, a) ==
  LET out(k) == Outcome(r.op, k)
      Retried(k) ==
        /\ out(k).kind = "Err"
        /\ k < p.attempts
        /\ r.should_retry[out(k).err]
        /\ compute_backoff(p, k).ok
      DelayAllowed(k) ==
        r.delays[k] \in SleepDelays(p, table, k, compute_backoff(p, k).val)
  IN  IF r.pc = "Created"
      THEN a = 0 /\ r.tries = 0 /\ r.delays = << >> /\ r.result = NoResult
      ELSE IF p.attempts = 0
      THEN /\ r.pc = "Panicked" /\ r.result = PanicResult("unreachable")
           /\ a = 0 /\ r.tries = 0 /\ r.delays = << >>
      ELSE /\ a \in 1..p.attempts
           /\ r.tries = a
           /\ \A k \in 1..(a - 1) : Retried(k)
           /\ Len(r.delays) = IF r.pc = "Delaying" THEN a ELSE a - 1
           /\ CASE r.pc = "Attempting" -> r.result = NoResult
                [] r.pc = "Succeeded" ->
                     out(a).kind = "Ok" /\ r.result = out(a)
                [] r.pc = "FailedTerminal" ->
                     /\ out(a).kind = "Err"
                     /\ a = p.attempts \/ ~r.should_retry[out(a).err]
                     /\ r.result = out(a)
                [] r.pc = "Delaying" -> Retried(a) /\ r.result = NoResult
                [] r.pc = "Panicked" ->
                     /\ out(a).kind = "Err"
                     /\ a < p.attempts
                     /\ r.should_retry[out(a).err]
                     /\ ~compute_backoff(p, a).ok
                     /\ r.result = PanicResult("mul_f64")
                [] OTHER -> FALSE
           /\ \A k \in 1..Len(r.delays) : DelayAllowed(k)

\* C16: several retry invocations running concurrently over one policy value
\* do not interfere: under every interleaving each invocation's attempt count,
\* delays and result are those it would have running alone, and no invocation
\* changes a field of the policy.
C16_ConcurrentRunsIndependent ==
  [][/\ policy' = policy
     /\ \A i \in Invocations :
          SoloReachable(policy', rng', runs'[i], cells'[i])]_vars

C16_Witness ==
  /\ policy.attempts = 3
  /\ policy.jitter /\ ~policy.rng_seed.some
  /\ runs[1].pc = "Succeeded" /\ runs[1].tries = 3
  /\ runs[2].pc = "FailedTerminal" /\ runs[2].tries = 2
  /\ runs[1].delays[1] # runs[2].delays[1]

\* the steps a retry call has taken: two per attempt before the current one,
\* one more once the current attempt has failed and its delay is pending
StepsTaken == 2 * attempt - (IF pc \in {"Created", "Attempting"} THEN 1 ELSE 0)

\* C17: for every policy with attempts >= 1, if every attempt completes and
\* every delay elapses, retry eventually reaches Succeeded or FailedTerminal
\* and makes no further transition.  As a property of every reachable state:
\* the call is either in Succeeded or FailedTerminal, or in a state from which
\* the completion of the attempt or the end of the delay takes it on, and it
\* has taken at most 2 * attempts steps; so a call whose steps all happen
\* stops within 2 * attempts steps, and only in Succeeded or FailedTerminal.
C17_EventuallyTerminal ==
  policy.attempts >= 1 =>
     /\ pc \in {"Created", "Attempting", "Delaying", "Succeeded",
                "FailedTerminal"}
     /\ StepsTaken <= 2 * policy.attempts

\* the keys given more than once in the argument list
RepeatedKeys ==
  {macro.attr.args[i].key : i \in
     {j \in 1..Len(macro.attr.args) :
        \E k \in 1..Len(macro.attr.args) :
           k # j /\ macro.attr.args[k].key = macro.attr.args[j].key}}

\* C18: the retry attribute rejects, at definition time, a non-async target
\* function, duplicate or conflicting attempt-count arguments (`attempts`
\* given twice), a non-integer literal for attempts or a delay, and an
\* unrecognized configuration key; none of these yields a wrapped function.
C18_BadAttributeRejected ==
  (/\ macro.out.kind # "none"
   /\ \/ ~macro.item.async
      \/ "attempts" \in RepeatedKeys
      \/ \E i \in 1..Len(macro.attr.args) :
            /\ macro.attr.args[i].key \in
                 {"attempts", "base_delay_ms", "max_delay_ms"}
            /\ macro.attr.args[i].expr.kind # "int"
      \/ \E i \in 1..Len(macro.attr.args) :
            macro.attr.args[i].key = "timeout_ms")
  => /\ macro.out.kind = "error"
     /\ pc = "Rejected"
     /\ tries = 0

\* the predicate argument when the argument list is `predicate = X` or
\* `attempts = 3, predicate = X`, as the tests write it
PredicateArg ==
  LET args == macro.attr.args
      last == args[Len(args)]
  IN  IF /\ macro.attr.form = "keyvals"
         /\ Len(args) \in {1, 2}
         /\ last.key = "predicate"
         /\ Len(args) = 2 =>
              /\ args[1].key = "attempts"
              /\ args[1].expr.kind = "int"
              /\ args[1].expr.num = 3
      THEN last.expr
      ELSE NoExpr

\* C19: the retry attribute accepts a `predicate` argument as a function
\* path, as an inline single-argument closure and as a string literal holding
\* a path, and in each case the wrapped function retries with that predicate:
\* an operation that fails twice with a retryable error and then succeeds is
\* attempted 3 times and its success returned.
C19_PredicateFormsAccepted ==
  (/\ macro.out.kind # "none"
   /\ macro.item.async
   /\ \/ PredicateArg.kind = "closure"
      \/ PredicateArg.kind \in {"path", "str"}
         /\ PredicateArg.text = "is_retryable")
  => /\ macro.out.kind = "wrapped"
     /\ policy.attempts = 3
     /\ should_retry["temporary"]
     /\ tries <= 3
     /\ Terminal => pc = "Succeeded" /\ tries = 3 /\ result = OkResult(3)

\* the top of the range the claim gives the jittered delay after attempt a:
\* max(d_ms, 1) milliseconds, d_ms being compute_backoff(a) in whole ms
ClaimedJitterTop(a) ==
  BigMax(as_millis(compute_backoff(policy, a).val), Big(1))

\* attempt `attempt` is in flight, will fail and will be retried after a delay
RetryAhead ==
  /\ pc = "Attempting"
  /\ Outcome(op, tries).kind = "Err"
  /\ attempt < policy.attempts
  /\ should_retry[Outcome(op, tries).err]
  /\ compute_backoff(policy, attempt).ok

\* C20: with jitter enabled, the delay slept after failed attempt n is a whole
\* number of milliseconds in [0, max(d_ms, 1)], d_ms being compute_backoff(n)
\* truncated to whole milliseconds, and without rng_seed every value of that
\* range is a possible outcome: the bottom, the middle and the top of the
\* range are among the delays the completion of the attempt can lead to.
C20_JitterRange ==
  policy.jitter =>
     /\ pc = "Delaying" =>
          /\ from_millis(as_millis(delays[attempt])) = delays[attempt]
          /\ BigLeq(as_millis(delays[attempt]), ClaimedJitterTop(attempt))
     /\ (RetryAhead /\ ~policy.rng_seed.some) =>
          \A draw \in RngDraws :
             from_millis(gen_range(draw, ClaimedJitterTop(attempt))) \in
               SleepDelays(policy, rng, attempt,
                           compute_backoff(policy, attempt).val)

\* C21: for every attempt >= 1, however large, compute_backoff returns a
\* duration that is at most max_delay and does not fail or abort; when
\* base_delay * backoff_factor^(attempt-1) leaves the range of Duration or is
\* not finite, it returns max_delay.
C21_BackoffNeverFails ==
  cbAttempt >= 1 =>
     /\ cbHi.ok
     /\ BigLeq(cbHi.val, policy.max_delay)
     /\ ~compute_backoff_unclamped(policy, cbAttempt).ok =>
          cbHi = Ok(policy.max_delay)

\* the attempts of the call that have been started and have not completed:
\* every completed attempt was followed by a delay or ended the call
InFlight ==
  tries - Len(delays) -
    (IF pc \in {"Succeeded", "FailedTerminal"} \/
        (pc = "Panicked" /\ result = PanicResult("mul_f64"))
     THEN 1 ELSE 0)

\* C22: within one call of retry at most one attempt is in flight in every
\* reachable state and none during a delay; attempt n+1 starts only in the
\* step in which the delay after attempt n elapses, attempt n having completed
\* with a failure, and an attempt completes only while it is the one awaited.
C22_AttemptsSerialized ==
  [][/\ InFlight' \in {0, 1}
     /\ pc' = "Delaying" => InFlight' = 0
     /\ pc' = "Attempting" => InFlight' = 1
     /\ tries' # tries =>
          /\ tries' = tries + 1
          /\ attempt' = tries'
          /\ pc' = "Attempting"
          /\ InFlight = 0
          /\ tries >= 1 =>
               /\ pc = "Delaying"
               /\ Len(delays) = tries
               /\ Outcome(op, tries).kind = "Err"
     /\ tries' - InFlight' # tries - InFlight =>
          /\ pc = "Attempting"
          /\ InFlight = 1
          /\ InFlight' = 0
          /\ tries' = tries]_vars

\* the third attempt is in flight, two delays having elapsed before it
C22_Witness ==
  /\ pc = "Attempting"
  /\ attempt = 3
  /\ Len(delays) = 2
  /\ InFlight = 1

\* the indices of the attempts that have completed with a failure while the
\* budget still had an attempt left
FailedBelowBudget ==
  {i \in 1..(IF pc = "Attempting" THEN tries - 1 ELSE tries) :
     Outcome(op, i).kind = "Err" /\ i < policy.attempts}

\* C23: the predicate is invoked exactly once for each failed attempt whose
\* index is below `attempts`, with that attempt's error, and never for a
\* successful attempt or for a failure at index `attempts`; so it is invoked at
\* most attempts - 1 times, and the number of delays equals the number of
\* predicate calls that returned true.
C23_PredicateCallsAndDelays ==
  /\ predCalls = Cardinality(FailedBelowBudget)
  /\ policy.attempts >= 1 => predCalls <= policy.attempts - 1
  /\ Len(delays) =
       Cardinality({i \in FailedBelowBudget : should_retry[Outcome(op, i).err]})

====
